---- MODULE Spec2Model ----
(***************************************************************************)
(* Transaction-identifier computation of gen_tx.py: the compact-size       *)
(* decoder read_varint, the witness-stripping serializer                   *)
(* serialize_without_witness and get_tx_hash (TXID / WTXID), run as the    *)
(* script runs them on a transaction given in hex.                         *)
(*                                                                         *)
(* A byte string is a sequence of numbers 0..255; Python offsets are       *)
(* 0-based, sequences here 1-based.  A Python int that may exceed TLC's    *)
(* integers (the value read_varint returns, up to 2^64 - 1) is a sequence  *)
(* of base-65536 digits, least significant first, without leading zeros.   *)
(* A Python exception is the field err of a result; err = "" is a normal   *)
(* return.                                                                 *)
(***************************************************************************)
EXTENDS Integers, Sequences, FiniteSets, TLC

VARIABLES
    tx,         \* the transaction the script is run on, as its fields
    tx_hex,     \* gen_tx.py:85, the hex string handed to get_tx_hash
    pc,         \* position of the script
    sw,         \* outcome of serialize_without_witness on the raw bytes
    txid,       \* outcome of get_tx_hash(tx_hex, with_witness=False)
    wtxid,      \* outcome of get_tx_hash(tx_hex, with_witness=True)
    data,       \* read_varint: the buffer
    offset,     \* read_varint: the offset
    vi_value,   \* the value whose encoding data holds at offset
    rv          \* outcome of read_varint(data, offset)

vars == <<tx, tx_hex, pc, sw, txid, wtxid, data, offset, vi_value, rv>>

\* ---- bounds of the model ----
MaxIn == 2

MaxOut == 2

MaxScript == 2

MaxOffset == 2

\* ---- Python byte strings ----

\* data[a:b] for 0 <= a, 0 <= b: never raises, cut at the end of data
Slice(s, a, b) == SubSeq(s, a + 1, IF b < Len(s) THEN b ELSE Len(s))

\* data[-4:]
LastFour(s) == SubSeq(s, IF Len(s) > 4 THEN Len(s) - 3 ELSE 1, Len(s))

\* h[::-1]
Reversed(s) == [i \in 1..Len(s) |-> s[Len(s) + 1 - i]]

\* ---- Python ints as base-65536 digits ----
RECURSIVE Trim(_)
Trim(d) == IF Len(d) > 0 /\ d[Len(d)] = 0 THEN Trim(SubSeq(d, 1, Len(d) - 1)) ELSE d

PyInt(n) == IF n = 0 THEN <<>> ELSE <<n>>

\* int.from_bytes(bs, 'little')
int_from_bytes_little(bs) ==
    Trim([i \in 1..((Len(bs) + 1) \div 2) |->
             bs[2 * i - 1] + 256 * (IF 2 * i <= Len(bs) THEN bs[2 * i] ELSE 0)])

\* 0 <= v < 256, what bytearray.append accepts
InByteRange(v) == Len(v) = 0 \/ (Len(v) = 1 /\ v[1] < 256)

SmallValue(v) == IF Len(v) = 0 THEN 0 ELSE v[1]

(***************************************************************************)
(* hashlib.sha256 (FIPS 180-4), as called at gen_tx.py:79-80.  A 32-bit    *)
(* word is the pair <<high 16 bits, low 16 bits>>: a whole word does not   *)
(* fit TLC's integers.  XOR and AND go through 4-bit tables.               *)
(***************************************************************************)
RECURSIVE BitOp(_, _, _, _)
BitOp(op, a, b, n) ==
    IF n = 0 THEN 0
    ELSE LET r == IF op = "xor" THEN ((a % 2) + (b % 2)) % 2 ELSE (a % 2) * (b % 2)
         IN r + 2 * BitOp(op, a \div 2, b \div 2, n - 1)

XorTab == [i \in 0..255 |-> BitOp("xor", i \div 16, i % 16, 4)]

AndTab == [i \in 0..255 |-> BitOp("and", i \div 16, i % 16, 4)]

Nibbles16(tab, a, b) ==
    tab[(a % 16) * 16 + (b % 16)]
    + 16 * tab[((a \div 16) % 16) * 16 + ((b \div 16) % 16)]
    + 256 * tab[((a \div 256) % 16) * 16 + ((b \div 256) % 16)]
    + 4096 * tab[(a \div 4096) * 16 + (b \div 4096)]

WXor(a, b) == <<Nibbles16(XorTab, a[1], b[1]), Nibbles16(XorTab, a[2], b[2])>>

WAnd(a, b) == <<Nibbles16(AndTab, a[1], b[1]), Nibbles16(AndTab, a[2], b[2])>>

WNot(a) == <<65535 - a[1], 65535 - a[2]>>

WAdd(a, b) ==
    LET lo == a[2] + b[2]
    IN <<(a[1] + b[1] + lo \div 65536) % 65536, lo % 65536>>

Pow2Tab == [i \in 0..16 |-> 2^i]

Pow2(n) == Pow2Tab[n]

\* rotate right by n, 0 < n < 32
RotR(a, n) ==
    LET w == IF n >= 16 THEN <<a[2], a[1]>> ELSE a
        k == IF n >= 16 THEN n - 16 ELSE n
        p == Pow2(k)
        q == Pow2(16 - k)
    IN IF k = 0 THEN w
       ELSE <<w[1] \div p + (w[2] % p) * q, w[2] \div p + (w[1] % p) * q>>

\* shift right by n, 0 < n < 16
ShR(a, n) ==
    LET p == Pow2(n)
        q == Pow2(16 - n)
    IN <<a[1] \div p, a[2] \div p + (a[1] % p) * q>>

ShaK ==
    <<<<17034, 12184>>, <<28983, 17553>>, <<46528, 64463>>, <<59829, 56229>>, <<14678, 49755>>, <<23025, 4593>>,
       <<37439, 33444>>, <<43804, 24277>>, <<55303, 43672>>, <<4739, 23297>>, <<9265, 34238>>, <<21772, 32195>>,
       <<29374, 23924>>, <<32990, 45566>>, <<39900, 1703>>, <<49563, 61812>>, <<58523, 27073>>, <<61374, 18310>>,
       <<4033, 40390>>, <<9228, 41420>>, <<11753, 11375>>, <<19060, 33962>>, <<23728, 43484>>, <<30457, 35034>>,
       <<38974, 20818>>, <<43057, 50797>>, <<45059, 10184>>, <<48985, 32711>>, <<50912, 3059>>, <<54695, 37191>>,
       <<1738, 25425>>, <<5161, 10599>>, <<10167, 2693>>, <<11803, 8504>>, <<19756, 28156>>, <<21304, 3347>>,
       <<25866, 29524>>, <<30314, 2747>>, <<33218, 51502>>, <<37490, 11397>>, <<41663, 59553>>, <<43034, 26187>>,
       <<49739, 35696>>, <<51052, 20899>>, <<53650, 59417>>, <<54937, 1572>>, <<62478, 13701>>, <<4202, 41072>>,
       <<6564, 49430>>, <<7735, 27656>>, <<10056, 30540>>, <<13488, 48309>>, <<14620, 3251>>, <<20184, 43594>>,
       <<23452, 51791>>, <<26670, 28659>>, <<29839, 33518>>, <<30885, 25455>>, <<33992, 30740>>, <<36039, 520>>,
       <<37054, 65530>>, <<42064, 27883>>, <<48889, 41975>>, <<50801, 30962>>>>

ShaH0 ==
    <<<<27145, 58983>>, <<47975, 44677>>, <<15470, 62322>>, <<42319, 62778>>,
        <<20750, 21119>>, <<39685, 26764>>, <<8067, 55723>>, <<23520, 52505>>>>

SmallSigma0(w) == WXor(WXor(RotR(w, 7), RotR(w, 18)), ShR(w, 3))

SmallSigma1(w) == WXor(WXor(RotR(w, 17), RotR(w, 19)), ShR(w, 10))

BigSigma0(w) == WXor(WXor(RotR(w, 2), RotR(w, 13)), RotR(w, 22))

BigSigma1(w) == WXor(WXor(RotR(w, 6), RotR(w, 11)), RotR(w, 25))

Ch(e, f, g) == WXor(WAnd(e, f), WAnd(WNot(e), g))

Maj(a, b, c) == WXor(WXor(WAnd(a, b), WAnd(a, c)), WAnd(b, c))

ScheduleWord(w, t) ==
    WAdd(WAdd(SmallSigma1(w[t - 2]), w[t - 7]), WAdd(SmallSigma0(w[t - 15]), w[t - 16]))

\* Message schedule words lo..hi appended to w.  The range is halved, and the
\* first half evaluated before the second, so that TLC's evaluation stack
\* stays shallow.
RECURSIVE Schedule(_, _, _)
Schedule(w, lo, hi) ==
    IF lo = hi THEN Append(w, ScheduleWord(w, lo))
    ELSE LET mid == (lo + hi) \div 2
             w1 == Schedule(w, lo, mid)
         IN IF Len(w1) = mid THEN Schedule(w1, mid + 1, hi) ELSE w1

Round(s, w, t) ==
    LET t1 == WAdd(WAdd(WAdd(s[8], BigSigma1(s[5])), WAdd(Ch(s[5], s[6], s[7]), ShaK[t])), w[t])
        t2 == WAdd(BigSigma0(s[1]), Maj(s[1], s[2], s[3]))
    IN <<WAdd(t1, t2), s[1], s[2], s[3], WAdd(s[4], t1), s[5], s[6], s[7]>>

RECURSIVE Rounds(_, _, _, _)
Rounds(s, w, lo, hi) ==
    IF lo = hi THEN Round(s, w, lo)
    ELSE LET mid == (lo + hi) \div 2
             s1 == Rounds(s, w, lo, mid)
         IN IF Len(s1) = 8 THEN Rounds(s1, w, mid + 1, hi) ELSE s1

Compress(h, block) ==
    LET w0 == [i \in 1..16 |-> <<block[4 * i - 3] * 256 + block[4 * i - 2],
                                 block[4 * i - 1] * 256 + block[4 * i]>>]
        w  == Schedule(w0, 17, 64)
        s  == IF Len(w) = 64 THEN Rounds(h, w, 1, 64) ELSE h
    IN [i \in 1..8 |-> WAdd(h[i], s[i])]

ShaPad(m) ==
    LET n == Len(m)
        z == (119 - (n % 64)) % 64
        bits == n * 8
    IN m \o <<128>> \o [i \in 1..z |-> 0]
         \o <<0, 0, 0, 0, (bits \div 16777216) % 256, (bits \div 65536) % 256,
              (bits \div 256) % 256, bits % 256>>

RECURSIVE ShaBlocks(_, _, _)
ShaBlocks(h, p, i) ==
    IF i > Len(p) THEN h
    ELSE LET h1 == Compress(h, SubSeq(p, i, i + 63))
         IN IF Len(h1) = 8 THEN ShaBlocks(h1, p, i + 64) ELSE h1

ShaDigest(h) ==
    [i \in 1..32 |-> LET w == h[(i + 3) \div 4]
                         k == (i - 1) % 4
                     IN IF k = 0 THEN w[1] \div 256
                        ELSE IF k = 1 THEN w[1] % 256
                        ELSE IF k = 2 THEN w[2] \div 256
                        ELSE w[2] % 256]

sha256(m) ==
    LET p == ShaPad(m)
    IN IF Len(p) % 64 = 0 THEN ShaDigest(ShaBlocks(ShaH0, p, 1)) ELSE <<>>

\* ---- read_varint ----
\* A variant of read_varint that knows the one-byte form only.
read_varint_one_byte(buf, off) ==
    IF off >= Len(buf) THEN [err |-> "IndexError", val |-> <<>>, pos |-> off]
    ELSE [err |-> "", val |-> PyInt(buf[off + 1]), pos |-> off + 1]

\* gen_tx.py:4-14
read_varint(buf, off) ==
    IF off >= Len(buf) THEN [err |-> "IndexError", val |-> <<>>, pos |-> off]
    ELSE LET val == buf[off + 1]
         IN IF val < 253 THEN [err |-> "", val |-> PyInt(val), pos |-> off + 1]
            ELSE IF val = 253
                 THEN [err |-> "", val |-> int_from_bytes_little(Slice(buf, off + 1, off + 3)),
                       pos |-> off + 3]
            ELSE IF val = 254
                 THEN [err |-> "", val |-> int_from_bytes_little(Slice(buf, off + 1, off + 5)),
                       pos |-> off + 5]
            ELSE [err |-> "", val |-> int_from_bytes_little(Slice(buf, off + 1, off + 9)),
                  pos |-> off + 9]

\* ---- serialize_without_witness ----
Raise(e) == [err |-> e, result |-> <<>>, pos |-> 0]

\* gen_tx.py:29-43, n iterations left, cursor pos
RECURSIVE add_inputs(_, _, _, _)
add_inputs(tx_bytes, n, pos, result) ==
    IF n = 0 THEN [err |-> "", result |-> result, pos |-> pos]
    ELSE LET v == read_varint(tx_bytes, pos + 36)
         IN IF v.err # "" THEN Raise(v.err)
            ELSE IF ~InByteRange(v.val) THEN Raise("ValueError")
            ELSE LET script_len == SmallValue(v.val)
                     r == result \o Slice(tx_bytes, pos, pos + 36)
                                 \o <<script_len>>
                                 \o Slice(tx_bytes, v.pos, v.pos + script_len)
                                 \o Slice(tx_bytes, v.pos + script_len, v.pos + script_len + 4)
                 IN add_inputs(tx_bytes, n - 1, v.pos + script_len + 4, r)

\* gen_tx.py:51-61
RECURSIVE add_outputs(_, _, _, _)
add_outputs(tx_bytes, n, pos, result) ==
    IF n = 0 THEN [err |-> "", result |-> result, pos |-> pos]
    ELSE IF pos + 8 >= Len(tx_bytes) THEN Raise("IndexError")
    ELSE LET script_len == tx_bytes[pos + 8 + 1]
             r == result \o Slice(tx_bytes, pos, pos + 8)
                         \o <<script_len>>
                         \o Slice(tx_bytes, pos + 9, pos + 9 + script_len)
         IN add_outputs(tx_bytes, n - 1, pos + 9 + script_len, r)

\* Variants of add_locktime that take other bytes than the last four: the
\* first four, and the last five.
add_first_four(result, tx_bytes) == result \o Slice(tx_bytes, 0, 4)

add_last_five(result, tx_bytes) ==
    result \o SubSeq(tx_bytes, IF Len(tx_bytes) > 5 THEN Len(tx_bytes) - 4 ELSE 1, Len(tx_bytes))

\* gen_tx.py:64
add_locktime(result, tx_bytes) == result \o LastFour(tx_bytes)

\* the function with its cursor: result is the return value, pos the cursor
\* after the last output
serialize_run(tx_bytes) ==
    LET c == read_varint(tx_bytes, 6)
    IN IF c.err # "" THEN Raise(c.err)
       ELSE IF ~InByteRange(c.val) THEN Raise("ValueError")
       ELSE LET tx_in_count == SmallValue(c.val)
                ins == add_inputs(tx_bytes, tx_in_count, c.pos,
                                  Slice(tx_bytes, 0, 4) \o <<tx_in_count>>)
            IN IF ins.err # "" THEN ins
               ELSE IF ins.pos >= Len(tx_bytes) THEN Raise("IndexError")
               ELSE LET output_count == tx_bytes[ins.pos + 1]
                        outs == add_outputs(tx_bytes, output_count, ins.pos + 1,
                                            ins.result \o <<output_count>>)
                    IN IF outs.err # "" THEN outs
                       ELSE [err |-> "", result |-> add_locktime(outs.result, tx_bytes),
                             pos |-> outs.pos]

serialize_without_witness(tx_bytes) ==
    LET r == serialize_run(tx_bytes)
    IN [err |-> r.err, result |-> r.result]

\* ---- hex ----
HexLower == <<"0", "1", "2", "3", "4", "5", "6", "7", "8", "9", "a", "b", "c", "d", "e", "f">>

HexUpper == <<"0", "1", "2", "3", "4", "5", "6", "7", "8", "9", "A", "B", "C", "D", "E", "F">>

IsHexDigit(c) == \E v \in 1..16 : HexLower[v] = c \/ HexUpper[v] = c

HexValue(c) == (CHOOSE v \in 1..16 : HexLower[v] = c \/ HexUpper[v] = c) - 1

\* binascii.unhexlify
unhexlify(hex_string) ==
    IF Len(hex_string) % 2 # 0 \/ \E i \in 1..Len(hex_string) : ~IsHexDigit(hex_string[i])
    THEN [err |-> "binascii.Error", bytes |-> <<>>]
    ELSE [err |-> "",
          bytes |-> [i \in 1..(Len(hex_string) \div 2) |->
                        16 * HexValue(hex_string[2 * i - 1]) + HexValue(hex_string[2 * i])]]

\* bytes.hex()
hex(bytes) ==
    [i \in 1..(2 * Len(bytes)) |->
        IF i % 2 = 1 THEN HexLower[bytes[(i + 1) \div 2] \div 16 + 1]
        ELSE HexLower[(bytes[i \div 2] % 16) + 1]]

\* ---- get_tx_hash ----
Fail(e) == [err |-> e, hashed |-> <<>>, ret |-> <<>>]

\* A variant of is_segwit that looks at the marker byte only.
is_segwit_marker_only(tx_bytes) ==
    IF Len(tx_bytes) > 4 /\ tx_bytes[5] = 0 THEN "yes" ELSE "no"

\* gen_tx.py:73; "error" when tx_bytes[5] raises IndexError
is_segwit(tx_bytes) ==
    IF ~(Len(tx_bytes) > 4) THEN "no"
    ELSE IF tx_bytes[5] # 0 THEN "no"
    ELSE IF Len(tx_bytes) < 6 THEN "error"
    ELSE IF tx_bytes[6] = 1 THEN "yes" ELSE "no"

\* The value of a one-element set.  {F(x) : x \in {e}} evaluates e once and
\* binds x to its value: the way an assignment statement binds a local.
TheOne(S) == CHOOSE x \in S : TRUE

\* gen_tx.py:79-80
double_sha256(tx_bytes) == TheOne({sha256(h1) : h1 \in {sha256(tx_bytes)}})

\* A variant of display that keeps the byte order of the digest.
display_unreversed(h2) == hex(h2)

\* gen_tx.py:82
display(h2) == hex(Reversed(h2))

\* gen_tx.py:78-82, on the value tx_bytes has at line 78
hash_bytes(tx_bytes) ==
    [err |-> "", hashed |-> tx_bytes,
     ret |-> TheOne({display(h2) : h2 \in {double_sha256(tx_bytes)}})]

\* A variant of hash_decoded that never strips the witness.
hash_decoded_raw(tx_bytes, with_witness) ==
    IF is_segwit(tx_bytes) = "error" THEN Fail("IndexError") ELSE hash_bytes(tx_bytes)

\* gen_tx.py:73-82, on the decoded bytes
hash_decoded(tx_bytes, with_witness) ==
    LET seg == is_segwit(tx_bytes)
        s == serialize_without_witness(tx_bytes)
    IN IF seg = "error" THEN Fail("IndexError")
       ELSE IF seg = "yes" /\ ~with_witness /\ s.err # "" THEN Fail(s.err)
       ELSE TheOne({hash_bytes(b) :
                       b \in {IF seg = "yes" /\ ~with_witness THEN s.result ELSE tx_bytes}})

\* The call with what it hashed: ret is the return value, hashed the value of
\* tx_bytes at line 79.
get_tx_hash_run(hex_string, with_witness) ==
    LET u == unhexlify(hex_string)
    IN IF u.err # "" THEN Fail(u.err)
       ELSE TheOne({hash_decoded(b, with_witness) : b \in {u.bytes}})

get_tx_hash(hex_string, with_witness) ==
    LET r == get_tx_hash_run(hex_string, with_witness)
    IN [err |-> r.err, ret |-> r.ret]

\* ---- the transaction behind tx_hex ----

\* Canonical compact-size encoding of v: one byte below 0xfd, else the prefix
\* 0xfd / 0xfe / 0xff and 2 / 4 / 8 payload bytes, little-endian.
PayloadBytes(v, n) ==
    [i \in 1..n |-> LET d == IF (i + 1) \div 2 <= Len(v) THEN v[(i + 1) \div 2] ELSE 0
                    IN IF i % 2 = 1 THEN d % 256 ELSE d \div 256]

CompactSize(v) ==
    IF Len(v) = 0 THEN <<0>>
    ELSE IF Len(v) = 1 /\ v[1] < 253 THEN <<v[1]>>
    ELSE IF Len(v) = 1 THEN <<253>> \o PayloadBytes(v, 2)
    ELSE IF Len(v) = 2 THEN <<254>> \o PayloadBytes(v, 4)
    ELSE <<255>> \o PayloadBytes(v, 8)

RECURSIVE Flatten(_)
Flatten(ss) == IF Len(ss) = 0 THEN <<>> ELSE Head(ss) \o Flatten(Tail(ss))

InputWire(i) == i.prevout \o CompactSize(PyInt(Len(i.script))) \o i.script \o i.sequence

OutputWire(o) == o.value \o CompactSize(PyInt(Len(o.script))) \o o.script

BodyWire(t) ==
    CompactSize(PyInt(Len(t.ins))) \o Flatten([k \in 1..Len(t.ins) |-> InputWire(t.ins[k])])
    \o CompactSize(PyInt(Len(t.outs))) \o Flatten([k \in 1..Len(t.outs) |-> OutputWire(t.outs[k])])

\* the complete wire format
Wire(t) ==
    t.version \o (IF t.marker THEN <<0, 1>> ELSE <<>>) \o BodyWire(t) \o t.witness \o t.locktime

\* the transaction without marker, flag and witness
LegacySerialization(t) == t.version \o BodyWire(t) \o t.locktime

\* the bytes tx_hex stands for: the wire format less its last t.cut bytes
Raw(t) == SubSeq(Wire(t), 1, Len(Wire(t)) - t.cut)

\* the cursor after the last output of the complete wire format
BodyEnd(t) == Len(t.version) + (IF t.marker THEN 2 ELSE 0) + Len(BodyWire(t))

HexString(t) ==
    LET b == Raw(t)
        digits == IF t.hexcase = "upper" THEN HexUpper ELSE HexLower
        s == [i \in 1..(2 * Len(b)) |->
                 IF i % 2 = 1 THEN digits[b[(i + 1) \div 2] \div 16 + 1]
                 ELSE digits[(b[i \div 2] % 16) + 1]]
    IN IF t.hexcase = "odd" THEN SubSeq(s, 1, Len(s) - 1)
       ELSE IF t.hexcase = "bad" THEN <<"g">> \o SubSeq(s, 2, Len(s))
       ELSE s

ScriptBytes(len, seed) == [j \in 1..len |-> (seed + j) % 256]

MakeTx(marker, n_in, n_out, in_len, out_len, wit, cut, hexcase) ==
    [version |-> <<2, 0, 0, 0>>,
     marker |-> marker,
     ins |-> [k \in 1..n_in |-> [prevout |-> [j \in 1..36 |-> IF j > 32 THEN 0 ELSE (37 * k + j) % 256],
                                 script |-> ScriptBytes(in_len, 160 + k),
                                 sequence |-> <<255, 255, 255, 255>>]],
     outs |-> [k \in 1..n_out |-> [value |-> <<64 + k, 81, 75, 0, 0, 0, 0, 0>>,
                                   script |-> ScriptBytes(out_len, 80 + k)]],
     witness |-> IF ~marker THEN <<>>
                 ELSE Flatten([k \in 1..n_in |-> IF wit THEN <<1, 2, 222, 172 + k>> ELSE <<0>>]),
     haswit |-> marker /\ wit /\ n_in > 0,
     locktime |-> <<16, 39, 0, 0>>,
     cut |-> cut,
     hexcase |-> hexcase]

ScriptLens == {0, MaxScript}

SmallTxs ==
    {MakeTx(TRUE, i, o, l, l, w, 0, "lower") :
        i \in 0..MaxIn, o \in 0..MaxOut, l \in ScriptLens, w \in BOOLEAN}
    \cup {MakeTx(FALSE, i, o, l, l, FALSE, 0, "lower") :
        i \in 0..MaxIn, o \in 0..MaxOut, l \in ScriptLens}

\* scripts at and around the length 0xfd, where compact-size leaves the one-byte form
LongScriptLens == {252, 253, 256}

LongTxs ==
    {MakeTx(TRUE, 1, 1, l, 0, TRUE, 0, "lower") : l \in LongScriptLens}
    \cup {MakeTx(TRUE, 1, 1, 0, l, TRUE, 0, "lower") : l \in LongScriptLens}

SegwitBase == MakeTx(TRUE, 1, 1, MaxScript, MaxScript, TRUE, 0, "lower")

LegacyBase == MakeTx(FALSE, 1, 1, MaxScript, MaxScript, FALSE, 0, "lower")

TruncatedTxs ==
    {[SegwitBase EXCEPT !.cut = c] : c \in 1..Len(Wire(SegwitBase))}
    \cup {[LegacyBase EXCEPT !.cut = c] : c \in 1..Len(Wire(LegacyBase))}

HexCaseTxs ==
    {[b EXCEPT !.hexcase = h] : b \in {SegwitBase, LegacyBase}, h \in {"upper", "odd", "bad"}}

\* gen_tx.py:85, the transaction of the literal tx_hex
SampleTx ==
    [version |-> <<2, 0, 0, 0>>,
     marker |-> TRUE,
     ins |-> <<[prevout |-> <<132, 249, 149, 56, 216, 38, 13, 60, 232, 81, 244, 232, 239, 114, 227, 236, 243, 255,
                          170, 167, 92, 74, 169, 146, 216, 16, 253, 111, 83, 229, 102, 136, 0, 0, 0, 0>>,
               script |-> <<>>,
               sequence |-> <<255, 255, 255, 255>>]>>,
     outs |-> <<[value |-> <<64, 81, 75, 0, 0, 0, 0, 0>>,
                script |-> <<81, 32, 179, 84, 27, 117, 153, 162, 194, 135, 80, 78, 14, 195, 37, 210, 157,
                           36, 69, 32, 38, 220, 180, 189, 21, 155, 208, 240, 10, 11, 57, 53, 223, 165>>]>>,
     witness |-> <<12, 0, 0, 64, 4, 73, 159, 254, 89, 14, 156, 52, 233, 115, 42, 186, 199, 84, 130, 39, 36, 180, 37, 141,
        162, 71, 1, 175, 230, 77, 96, 78, 163, 139, 105, 204, 71, 41, 239, 251, 47, 95, 224, 30, 138, 4, 255, 191,
        115, 78, 70, 228, 115, 85, 228, 87, 80, 141, 208, 159, 76, 28, 172, 112, 30, 26, 219, 133, 64, 192, 72, 251,
        252, 182, 164, 109, 239, 192, 75, 222, 81, 177, 208, 22, 160, 183, 5, 229, 171, 134, 79, 30, 159, 156, 4, 133,
        254, 121, 48, 82, 120, 137, 26, 141, 94, 252, 225, 115, 204, 252, 17, 139, 224, 209, 14, 43, 146, 128, 71, 121,
        253, 20, 65, 236, 245, 72, 253, 248, 131, 252, 16, 11, 42, 0, 64, 105, 117, 139, 115, 54, 74, 139, 113, 193,
        151, 219, 172, 131, 144, 185, 217, 127, 218, 92, 150, 167, 225, 78, 37, 218, 144, 50, 239, 159, 59, 240, 239, 2,
        179, 171, 79, 68, 34, 54, 207, 129, 17, 187, 22, 183, 119, 125, 8, 24, 9, 205, 21, 74, 228, 21, 248, 178,
        227, 241, 102, 86, 171, 68, 145, 64, 81, 248, 84, 231, 86, 36, 111, 99, 144, 181, 118, 75, 117, 159, 62, 240,
        100, 190, 130, 9, 206, 223, 50, 88, 13, 213, 118, 40, 132, 55, 50, 113, 70, 245, 94, 132, 249, 116, 170, 180,
        95, 34, 255, 167, 53, 217, 40, 234, 220, 18, 142, 245, 176, 97, 17, 12, 139, 231, 70, 171, 149, 225, 83, 158,
        64, 170, 247, 107, 71, 149, 105, 144, 45, 92, 138, 53, 254, 51, 143, 24, 188, 231, 32, 153, 85, 114, 66, 44,
        25, 86, 188, 135, 69, 51, 169, 123, 169, 63, 171, 241, 88, 177, 36, 210, 112, 190, 202, 136, 100, 177, 150, 235,
        239, 32, 192, 175, 146, 5, 84, 40, 137, 239, 91, 88, 152, 255, 216, 140, 166, 64, 253, 25, 198, 154, 225, 167,
        63, 107, 203, 71, 218, 23, 40, 80, 55, 169, 17, 24, 217, 126, 24, 28, 38, 248, 177, 97, 216, 43, 29, 219,
        224, 42, 198, 72, 62, 233, 175, 234, 25, 192, 48, 108, 223, 198, 244, 245, 148, 71, 71, 143, 136, 246, 4, 73,
        140, 147, 188, 10, 136, 57, 85, 2, 88, 168, 64, 17, 209, 235, 196, 149, 99, 123, 51, 227, 183, 52, 1, 110,
        189, 225, 58, 186, 149, 37, 217, 243, 19, 170, 190, 236, 157, 246, 217, 130, 241, 51, 241, 75, 24, 98, 83, 18,
        171, 6, 42, 17, 176, 61, 241, 115, 202, 20, 84, 106, 221, 232, 165, 201, 142, 155, 29, 231, 210, 249, 143, 171,
        181, 114, 253, 253, 86, 1, 32, 195, 154, 172, 110, 117, 157, 46, 130, 213, 53, 13, 253, 105, 25, 62, 242, 39,
        234, 79, 33, 237, 42, 218, 7, 114, 131, 112, 74, 234, 110, 190, 47, 173, 32, 35, 178, 159, 137, 180, 95, 74,
        244, 21, 136, 220, 175, 12, 165, 114, 173, 163, 40, 114, 168, 130, 36, 243, 17, 55, 57, 23, 241, 179, 125, 8,
        209, 172, 32, 75, 21, 132, 142, 73, 90, 58, 98, 40, 61, 170, 173, 179, 244, 88, 160, 8, 89, 254, 72, 227,
        33, 240, 18, 30, 186, 187, 221, 102, 152, 249, 250, 186, 32, 130, 66, 100, 7, 50, 119, 50, 73, 49, 44, 71,
        202, 123, 219, 80, 202, 121, 241, 95, 46, 204, 50, 185, 200, 60, 238, 187, 164, 79, 183, 77, 247, 186, 32, 203,
        221, 2, 140, 254, 50, 193, 193, 242, 216, 75, 254, 199, 30, 25, 249, 45, 245, 9, 187, 167, 184, 173, 49, 202,
        108, 26, 19, 79, 224, 146, 4, 186, 32, 211, 199, 155, 153, 172, 77, 38, 92, 47, 151, 172, 17, 227, 35, 44,
        7, 165, 152, 176, 32, 207, 86, 198, 240, 85, 71, 44, 137, 60, 9, 103, 174, 186, 32, 212, 92, 112, 210, 143,
        22, 158, 31, 12, 127, 74, 120, 226, 188, 115, 73, 122, 254, 88, 91, 112, 170, 137, 121, 85, 152, 144, 104, 243,
        53, 10, 170, 186, 32, 222, 19, 252, 150, 234, 104, 153, 172, 189, 197, 219, 58, 250, 166, 131, 246, 47, 227, 91,
        96, 255, 110, 183, 35, 218, 210, 138, 17, 210, 177, 47, 140, 186, 32, 227, 98, 0, 170, 168, 220, 233, 69, 53,
        103, 187, 161, 8, 189, 197, 31, 127, 17, 116, 185, 122, 101, 228, 220, 68, 2, 252, 93, 231, 121, 212, 28, 186,
        32, 241, 120, 252, 206, 130, 249, 92, 82, 75, 83, 176, 119, 230, 24, 11, 210, 215, 121, 169, 5, 127, 223, 244,
        37, 90, 10, 249, 90, 249, 24, 206, 224, 186, 86, 156, 97, 193, 80, 146, 155, 116, 193, 160, 73, 84, 183, 139,
        75, 96, 53, 233, 122, 94, 7, 138, 90, 15, 40, 236, 150, 213, 71, 191, 238, 154, 206, 128, 58, 192, 91, 158,
        203, 86, 10, 145, 191, 151, 151, 100, 84, 50, 108, 56, 39, 146, 120, 173, 233, 218, 14, 158, 223, 161, 251, 124,
        139, 121, 162, 217, 18, 95, 29, 104, 127, 131, 128, 246, 135, 145, 85, 126, 16, 162, 147, 195, 65, 134, 132, 139,
        218, 113, 26, 79, 84, 68, 32, 79, 133, 10, 231, 199, 76, 232>>,
     haswit |-> TRUE,
     locktime |-> <<0, 0, 0, 0>>,
     cut |-> 0,
     hexcase |-> "lower"]

Transactions == SmallTxs \cup LongTxs \cup TruncatedTxs \cup HexCaseTxs \cup {SampleTx}

\* ---- the script, gen_tx.py:85-88 ----
NotCalled == [err |-> "not called", hashed |-> <<>>, ret |-> <<>>]

NoResult == [err |-> "not called", result |-> <<>>]

NoVarint == [err |-> "not called", val |-> <<>>, pos |-> 0]

NoTx == MakeTx(FALSE, 0, 0, 0, 0, FALSE, 0, "lower")

Init ==
    /\ tx \in Transactions
    /\ tx_hex = HexString(tx)
    /\ pc = "start"
    /\ sw = NoResult
    /\ txid = NotCalled
    /\ wtxid = NotCalled
    /\ data = <<>>
    /\ offset = 0
    /\ vi_value = <<>>
    /\ rv = NoVarint

\* serialize_without_witness applied to the decoded bytes
CallSerialize ==
    /\ pc = "start"
    /\ sw' = serialize_without_witness(Raw(tx))
    /\ pc' = "serialized"
    /\ UNCHANGED <<tx, tx_hex, txid, wtxid, data, offset, vi_value, rv>>

\* gen_tx.py:87-88: the two calls of the script, first without the witness,
\* then with it
PrintHash ==
    /\ pc \in {"serialized", "txid"}
    /\ \E r \in {get_tx_hash_run(tx_hex, pc = "txid")} :
          IF pc = "serialized"
          THEN txid' = r /\ wtxid' = wtxid /\ pc' = "txid"
          ELSE wtxid' = r /\ txid' = txid /\ pc' = "done"
    /\ UNCHANGED <<tx, tx_hex, sw, data, offset, vi_value, rv>>

Next == CallSerialize \/ PrintHash

Spec == Init /\ [][Next]_vars

\* ---- read_varint on its own ----
DigitValues == {0, 1, 252, 253, 65535}

\* values up to 2^64 - 1, in every length class
VarintValues == {Trim(<<a, b, c, d>>) : a, b, c, d \in DigitValues}

InitVarint ==
    /\ \E v \in VarintValues, o \in 0..MaxOffset :
         \E c \in 0..Len(CompactSize(v)), tail \in {<<>>, <<1, 253>>} :
            /\ c > 0 => tail = <<>>
            /\ vi_value = v
            /\ offset = o
            /\ data = [i \in 1..o |-> 255] \o SubSeq(CompactSize(v), 1, Len(CompactSize(v)) - c) \o tail
    /\ rv = NoVarint
    /\ tx = NoTx
    /\ tx_hex = <<>>
    /\ pc = "varint"
    /\ sw = NoResult
    /\ txid = NotCalled
    /\ wtxid = NotCalled

ReadVarint ==
    /\ pc = "varint"
    /\ rv' = read_varint(data, offset)
    /\ pc' = "varint done"
    /\ UNCHANGED <<tx, tx_hex, sw, txid, wtxid, data, offset, vi_value>>

NextVarint == ReadVarint

SpecVarint == InitVarint /\ [][NextVarint]_vars

(***************************************************************************)
(* The properties.  raw is the byte string behind tx_hex; a property about *)
(* a transaction is stated on the fields of tx, from which raw was built.  *)
(***************************************************************************)
ValidHex == tx.hexcase \in {"lower", "upper"}

\* marker 0x00 at index 4 and flag 0x01 at index 5
SegwitMarked(raw) == Len(raw) >= 6 /\ raw[5] = 0 /\ raw[6] = 1

\* tx_hex is the complete wire format of a transaction with marker and flag
WellFormedSegwit == tx.marker /\ tx.cut = 0 /\ ValidHex

\* C1: on every well-formed SegWit transaction serialize_without_witness
\* returns the legacy serialization, every count and script length written
\* back in its compact-size form.
C1_StripIsLegacySerialization ==
    (pc # "start" /\ WellFormedSegwit)
        => (sw.err = "" /\ sw.result = LegacySerialization(tx))

\* C2: a SegWit-marked buffer that ends before the end of a field or of the
\* locktime makes serialize_without_witness and get_tx_hash(., False) fail;
\* nothing is serialized or hashed.
C2_TruncatedFails ==
    (pc = "done" /\ tx.marker /\ ValidHex /\ SegwitMarked(Raw(tx))
        /\ Len(Raw(tx)) < BodyEnd(tx) + 4)
        => (sw.err # "" /\ txid.err # "")

\* C3: when bytes 4 and 5 are not (0x00, 0x01) the two calls of get_tx_hash
\* have the same outcome, and what they hash is the raw bytes.
C3_LegacyTxidIsWtxid ==
    (pc = "done" /\ ValidHex /\ ~SegwitMarked(Raw(tx)))
        => (/\ txid = wtxid
            /\ txid.err = "" => txid.hashed = Raw(tx))

C3_Witness ==
    /\ pc = "done" /\ ValidHex /\ ~SegwitMarked(Raw(tx))
    /\ Len(Raw(tx)) >= 6 /\ Raw(tx)[5] = 0
    /\ txid.err = "" /\ wtxid.ret = txid.ret

\* C4: for a SegWit transaction with a non-empty witness stack the TXID call
\* and the WTXID call differ, in what they hash and in what they return.
C4_TxidIsNotWtxid ==
    (pc = "done" /\ WellFormedSegwit /\ tx.haswit)
        => (/\ wtxid.err = "" /\ wtxid.hashed = Raw(tx)
            /\ txid.hashed # wtxid.hashed
            /\ txid.ret # wtxid.ret)

C4_Witness ==
    /\ pc = "done" /\ WellFormedSegwit /\ tx.haswit
    /\ txid.err = "" /\ wtxid.err = ""
    /\ Len(txid.ret) = 64 /\ txid.ret # wtxid.ret

\* the payload bytes the prefix byte at offset calls for
PayloadNeeded(prefix) ==
    IF prefix < 253 THEN 0 ELSE IF prefix = 253 THEN 2 ELSE IF prefix = 254 THEN 4 ELSE 8

\* C5: read_varint fails when offset is no index of the buffer or fewer
\* payload bytes remain than the prefix calls for, and a position it returns
\* lies within the buffer.
C5_ShortVarintFails ==
    pc = "varint done"
        => (/\ (\/ offset >= Len(data)
                \/ Len(data) - (offset + 1) < PayloadNeeded(data[offset + 1]))
               => rv.err # ""
            /\ rv.err = "" => rv.pos <= Len(data))

\* the length of the canonical encoding of v: 1, 3, 5 or 9
EncodedLength(v) ==
    IF Len(v) = 0 \/ (Len(v) = 1 /\ v[1] < 253) THEN 1
    ELSE IF Len(v) = 1 THEN 3
    ELSE IF Len(v) = 2 THEN 5
    ELSE 9

\* data holds the canonical compact-size encoding of vi_value at offset
HoldsEncoding ==
    /\ offset + EncodedLength(vi_value) <= Len(data)
    /\ SubSeq(data, offset + 1, offset + EncodedLength(vi_value)) = CompactSize(vi_value)

\* C6: read_varint at the offset of the canonical encoding of a value returns
\* that value and the offset behind the encoding (1, 3, 5 or 9 bytes on).
C6_VarintRoundTrip ==
    (pc = "varint done" /\ HoldsEncoding)
        => (/\ rv.err = ""
            /\ rv.val = vi_value
            /\ rv.pos = offset + EncodedLength(vi_value))

C6_Witness ==
    /\ pc = "varint done" /\ HoldsEncoding
    /\ offset > 0 /\ Len(vi_value) = 4 /\ vi_value[4] = 65535
    /\ rv.val = vi_value /\ rv.pos = offset + 9

\* C7: on a decoded buffer of fewer than 6 bytes get_tx_hash fails, and not
\* by reading index 4 or 5 out of range; it returns no hash.
C7_TooShortFails ==
    (pc = "done" /\ ValidHex /\ Len(Raw(tx)) < 6)
        => (/\ txid.err \notin {"", "IndexError"}
            /\ wtxid.err \notin {"", "IndexError"})

\* the buffer get_tx_hash is to hash
WorkingBuffer(raw, with_witness) ==
    IF SegwitMarked(raw) /\ ~with_witness THEN serialize_without_witness(raw).result ELSE raw

LowerHexDigits == {HexLower[v] : v \in 1..16}

ReversalCorrect(r, with_witness) ==
    r.err = ""
        => (/\ Len(r.ret) = 64
            /\ \A i \in 1..Len(r.ret) : r.ret[i] \in LowerHexDigits
            /\ Reversed(unhexlify(r.ret).bytes)
                  = double_sha256(WorkingBuffer(Raw(tx), with_witness)))

\* C8: a string get_tx_hash returns is 64 lowercase hex digits, and decoded
\* and byte-reversed it is SHA256(SHA256(.)) of the working buffer.
C8_ReversalCorrect ==
    /\ pc \in {"txid", "done"} => ReversalCorrect(txid, FALSE)
    /\ pc = "done" => ReversalCorrect(wtxid, TRUE)

C8_Witness ==
    /\ pc = "done" /\ tx.hexcase = "upper" /\ SegwitMarked(Raw(tx))
    /\ txid.err = "" /\ wtxid.err = ""
    /\ Len(txid.ret) = 64 /\ Len(wtxid.ret) = 64

\* C9: a serialization serialize_without_witness returns ends with the last
\* 4 bytes of the buffer, wherever the cursor stood after the last output.
C9_LocktimeIsLastFour ==
    (pc # "start" /\ sw.err = "")
        => (/\ Len(sw.result) >= 4
            /\ SubSeq(sw.result, Len(sw.result) - 3, Len(sw.result))
                  = SubSeq(Raw(tx), Len(Raw(tx)) - 3, Len(Raw(tx))))

C9_Witness ==
    /\ pc = "serialized" /\ sw.err = ""
    /\ serialize_run(Raw(tx)).pos + 4 < Len(Raw(tx))
    /\ LastFour(sw.result) = tx.locktime

\* byte strings to stand between the cursor and the final 4 bytes
WitnessVariants == {<<>>, <<2, 1, 171, 1, 205>>}

\* raw with the bytes between p and its final 4 bytes replaced by w
WithWitness(raw, p, w) == SubSeq(raw, 1, p) \o w \o LastFour(raw)

\* C10: SegWit buffers that differ only between the cursor position after the
\* last output and their final 4 bytes have the same serialization without
\* witness and the same TXID.
C10_TxidIgnoresWitness ==
    (pc = "txid" /\ ValidHex /\ SegwitMarked(Raw(tx)) /\ sw.err = ""
        /\ serialize_run(Raw(tx)).pos + 4 <= Len(Raw(tx)))
        => \A w \in WitnessVariants :
              LET other == WithWitness(Raw(tx), serialize_run(Raw(tx)).pos, w)
              IN /\ serialize_without_witness(other) = sw
                 /\ get_tx_hash(hex(other), FALSE) = [err |-> txid.err, ret |-> txid.ret]

C10_Witness ==
    /\ pc = "txid" /\ WellFormedSegwit /\ tx.haswit /\ sw.err = "" /\ txid.err = ""
    /\ serialize_run(Raw(tx)).pos + 4 < Len(Raw(tx))
    /\ \E w \in WitnessVariants :
          WithWitness(Raw(tx), serialize_run(Raw(tx)).pos, w) # Raw(tx)
====
